---- MODULE Spec2Model ----
(***************************************************************************)
(* Model of recplot_database_prep_revisions_bams.py: the SQLite store      *)
(* built by sqldb_creation / add_sample / save_reads_mapped, and the       *)
(* recruitment matrices of prepare_numpy_matrices / fill_matrices.         *)
(*                                                                         *)
(* Percent identities are kept in hundredths of a percent (98.5 is 9850),  *)
(* so that the float comparisons of the source are integer comparisons.    *)
(* Python indexes are 0-based; sequences here are 1-based and At(s, i)     *)
(* reads Python's s[i].                                                    *)
(***************************************************************************)
EXTENDS Integers, Sequences, FiniteSets, TLC

VARIABLES
    \* ---- recruitment matrices (prepare_numpy_matrices, fill_matrices)
    mpc,            \* position: "prepare", "fill"
    contig_sizes,   \* rows (contig_id, contig_len) of mag_info for the MAG
    width,          \* width argument (position bin width)
    bin_height,     \* identity step, hundredths of a percent
    id_lower,       \* lowest identity, hundredths of a percent
    id_breaks,      \* ascending identity boundaries
    matrices,       \* contig_id -> [starts, ends, arr]
    nreads,         \* rows the cursor of fill_matrices has delivered
    read_mapped,    \* the row of the last loop iteration (NoRead before)
    credits,        \* the cell updates of the last loop iteration
    \* ---- inputs of the store
    files,          \* file name -> lines of the mapping file
    membership,     \* get_mags(mags): <<contig name, MAG name>> in file order
    contigs,        \* read_contigs(contigs): <<contig name, length>> in file order
    batch,          \* records written per transaction (500000 in the source)
    \* ---- the SQLite database
    db,             \* committed: lookup_table, sample_info, mags_per_sample,
                    \* and tables: sample number n -> rows of table sample_<n>
    txn,            \* the open transaction: rows inserted and not committed
    \* ---- the running call
    pc,             \* position in the call, "idle" between calls
    op,             \* "sqldb_creation" or "add_sample"
    map_format,
    todo,           \* the files of the call still to be ingested
    cur,            \* the file being ingested and its sample
    contig_mag_corresp,
    samples_dict,
    last_sample,
    ln,             \* lines of the file read so far
    records,
    record_counter,
    contigs_in_sample,
    at_eof,         \* the write is the one after the loop
    \* ---- history
    outcome,        \* how the last call ended
    pre,            \* the database when the call began
    orig            \* file name -> hits stored when its sample was created

mvars == <<mpc, contig_sizes, width, bin_height, id_lower, id_breaks,
           matrices, nreads, read_mapped, credits>>

svars == <<files, membership, contigs, batch, db, txn, pc, op, map_format, todo, cur,
           contig_mag_corresp, samples_dict, last_sample, ln, records,
           record_counter, contigs_in_sample, at_eof, outcome, pre, orig>>

vars == <<mvars, svars>>

\* ---------------------------------------------------------------- bounds
MaxLen == 5         \* contig lengths 1..MaxLen
MaxWidth == 2       \* bin widths 1..MaxWidth
MaxReads == 2       \* rows delivered to one fill_matrices call
MaxLines == 2       \* lines of a mapping file
MaxBatch == 2       \* batch sizes 1..MaxBatch (500000 in the source)

\* ------------------------------------------------------------- constants
TopIdentity == 10000        \* current_break = 100

\* ---------------------------------------------------------------- helpers
At(s, i) == s[i + 1]

Max(a, b) == IF a > b THEN a ELSE b
Min(a, b) == IF a < b THEN a ELSE b

\* Python's a[i] for a list of length n: negative indexes count from the end.
PyIndex(i, n) == IF i < 0 THEN i + n ELSE i

RECURSIVE SumSeq(_)
SumSeq(s) == IF s = <<>> THEN 0 ELSE Head(s) + SumSeq(Tail(s))

\* bisect.bisect_right(a, x): CPython's loop on lo, hi.
RECURSIVE BisectRightLoop(_, _, _, _)
BisectRightLoop(a, x, lo, hi) ==
    IF lo < hi
    THEN LET mid == (lo + hi) \div 2
         IN IF x < At(a, mid) THEN BisectRightLoop(a, x, lo, mid)
                              ELSE BisectRightLoop(a, x, mid + 1, hi)
    ELSE lo
bisect_right(a, x) == BisectRightLoop(a, x, 0, Len(a))

\* bisect.bisect_left(a, x).
RECURSIVE BisectLeftLoop(_, _, _, _)
BisectLeftLoop(a, x, lo, hi) ==
    IF lo < hi
    THEN LET mid == (lo + hi) \div 2
         IN IF At(a, mid) < x THEN BisectLeftLoop(a, x, mid + 1, hi)
                              ELSE BisectLeftLoop(a, x, lo, mid)
    ELSE lo
bisect_left(a, x) == BisectLeftLoop(a, x, 0, Len(a))

\* ------------------------------------------------- prepare_numpy_matrices
\* while current_break > id_lower: append, step down; the list is descending.
RECURSIVE BreaksDescending(_, _, _)
BreaksDescending(current_break, lower, step) ==
    IF current_break > lower
    THEN <<current_break>> \o BreaksDescending(current_break - step, lower, step)
    ELSE <<>>

Reverse(s) == [i \in 1..Len(s) |-> s[Len(s) + 1 - i]]

IdBreaks(lower, step) == Reverse(BreaksDescending(TopIdentity, lower, step))

\* int(contig_length / width) rounded up instead of down.
NumBinsCeil(contig_length, w) ==
    IF (contig_length + w - 1) \div w < 1 THEN 1 ELSE (contig_length + w - 1) \div w

\* num_bins = int(contig_length / width), at least 1.
NumBins(contig_length, w) ==
    IF contig_length \div w < 1 THEN 1 ELSE contig_length \div w

\* np.linspace(1, contig_length, num, dtype=uint64, endpoint=False):
\* start + i * (stop - start) / num, floored.
BinStarts(contig_length, num_bins) ==
    [i \in 1..num_bins |-> 1 + ((i - 1) * (contig_length - 1)) \div num_bins]

\* A slip for np.append(starts[1:]-1, contig_length): the "- 1" left out.
BinEndsNoGap(starts, contig_length) ==
    [i \in 1..Len(starts) |->
        IF i < Len(starts) THEN starts[i + 1] ELSE contig_length]

\* ends = np.append(starts[1:] - 1, contig_length)
BinEnds(starts, contig_length) ==
    [i \in 1..Len(starts) |->
        IF i < Len(starts) THEN starts[i + 1] - 1 ELSE contig_length]

\* np.zeros((len(id_breaks), len(starts)), dtype=uint32)
Zeros(rows, cols) == [r \in 1..rows |-> [c \in 1..cols |-> 0]]

ContigMatrix(contig_length, w, breaks) ==
    LET starts == BinStarts(contig_length, NumBins(contig_length, w))
    IN [starts |-> starts,
        ends   |-> BinEnds(starts, contig_length),
        arr    |-> Zeros(Len(breaks), Len(starts))]

ContigIds(sizes) == {sizes[i][1] : i \in 1..Len(sizes)}

LengthOf(sizes, cid) ==
    LET i == CHOOSE k \in 1..Len(sizes) : sizes[k][1] = cid IN sizes[i][2]

prepare_numpy_matrices ==
    /\ mpc = "prepare"
    /\ id_breaks' = IdBreaks(id_lower, bin_height)
    /\ matrices' = [cid \in ContigIds(contig_sizes) |->
                       ContigMatrix(LengthOf(contig_sizes, cid), width,
                                    IdBreaks(id_lower, bin_height))]
    /\ mpc' = "fill"
    /\ UNCHANGED <<contig_sizes, width, bin_height, id_lower, nreads,
                   read_mapped, credits>>

\* ----------------------------------------------------------- fill_matrices
NoRead == [contig_id |-> 0, identity |-> 0, start |-> 0, stop |-> 0]

\* The split loop with "read_len = overflow" forgotten.
RECURSIVE SplitNoCarry(_, _, _, _, _)
SplitNoCarry(ends, j, stop_loc, read_stop, read_len) ==
    IF j > stop_loc THEN <<>>
    ELSE LET overflow == read_stop - At(ends, j)
         IN IF overflow > 0
            THEN <<[col |-> j, bases |-> read_len - overflow]>>
                 \o SplitNoCarry(ends, j + 1, stop_loc, read_stop, read_len)
            ELSE <<[col |-> j, bases |-> read_len]>>
                 \o SplitNoCarry(ends, j + 1, stop_loc, read_stop, read_len)

\* for j in range(read_start_loc, read_stop_loc + 1): the bases credited to
\* each position bin j, in loop order.
RECURSIVE Split(_, _, _, _, _)
Split(ends, j, stop_loc, read_stop, read_len) ==
    IF j > stop_loc THEN <<>>
    ELSE LET overflow == read_stop - At(ends, j)
         IN IF overflow > 0
            THEN <<[col |-> j, bases |-> read_len - overflow]>>
                 \o Split(ends, j + 1, stop_loc, read_stop, overflow)
            ELSE <<[col |-> j, bases |-> read_len]>>
                 \o Split(ends, j + 1, stop_loc, read_stop, read_len)

\* The updates "matrices[contig_id][2][read_id_index][j] += n" of one row of
\* the cursor, as <<row, col, bases>> with row, col the Python indexes used.
ReadCredits(m, breaks, r) ==
    LET read_len       == r.stop - r.start + 1
        read_id_index  == bisect_right(breaks, r.identity) - 1
        read_start_loc == bisect_left(m.ends, r.start)
        read_stop_loc  == bisect_left(m.ends, r.stop)
        cols == IF read_start_loc = read_stop_loc
                THEN <<[col |-> read_start_loc, bases |-> read_len]>>
                ELSE Split(m.ends, read_start_loc, read_stop_loc, r.stop, read_len)
    IN [k \in 1..Len(cols) |->
           [row |-> read_id_index, col |-> cols[k].col, bases |-> cols[k].bases]]

\* arr[row][col] += bases; a negative row counts from the last row, as numpy
\* indexes do. The cells are np.uint32: with contigs of at most MaxLen bases
\* and MaxReads rows a cell stays far below 2^32, so the sum never wraps.
AddCell(arr, row, col, bases) ==
    LET r == PyIndex(row, Len(arr)) + 1
        c == col + 1
    IN [arr EXCEPT ![r][c] = @ + bases]

RECURSIVE ApplyCredits(_, _)
ApplyCredits(arr, cs) ==
    IF cs = <<>> THEN arr
    ELSE ApplyCredits(AddCell(arr, Head(cs).row, Head(cs).col, Head(cs).bases),
                      Tail(cs))

\* Rows the cursor can deliver: ingestion stores start <= stop, and the rows
\* modelled lie on the contig (1 <= start <= stop <= contig_len) or belong to
\* a contig that has no matrix.
Identities == {7000, 7060, 10000}

\* The id of a contig that has no matrix.
ForeignContig(sizes) == Len(sizes) + 1

\* The spans stored on a long contig: reads of 21 bases inside a bin and
\* across the middle of the contig, a read of two bases, and one that covers
\* the contig.
LongSpans(len) ==
    {<<990, 1010>>, <<1165, 1185>>, <<1174, 1175>>, <<1, len>>}

\* <<start, stop>> of the rows on a contig: all of them on a short contig.
Spans(len) ==
    IF len <= MaxLen
    THEN {sp \in (1..len) \X (1..len) : sp[1] <= sp[2]}
    ELSE {sp \in LongSpans(len) : sp[2] <= len}

ReadsOn(sizes) ==
    UNION {{[contig_id |-> sizes[i][1], identity |-> p, start |-> sp[1],
             stop |-> sp[2]] : p \in Identities, sp \in Spans(sizes[i][2])}
           : i \in 1..Len(sizes)}

CursorRows(sizes) ==
    ReadsOn(sizes)
    \cup {[contig_id |-> ForeignContig(sizes), identity |-> 9850, start |-> 1, stop |-> 1]}

\* One iteration of "for read_mapped in cursor".
fill_matrices ==
    /\ mpc = "fill"
    /\ nreads < MaxReads
    /\ \E r \in CursorRows(contig_sizes) :
          /\ read_mapped' = r
          /\ nreads' = nreads + 1
          /\ IF r.contig_id \in DOMAIN matrices
             THEN LET cs == ReadCredits(matrices[r.contig_id], id_breaks, r)
                  IN /\ credits' = cs
                     /\ matrices' = [matrices EXCEPT ![r.contig_id].arr =
                                        ApplyCredits(@, cs)]
             ELSE /\ credits' = <<>>
                  /\ UNCHANGED matrices
    /\ UNCHANGED <<mpc, contig_sizes, width, bin_height, id_lower, id_breaks>>

\* The (id_lower, bin_height) pairs of the calls modelled: 70 with step 0.5,
\* as main calls it (boundaries 70.5, 71.0, .. 100.0), and 98 with step 1
\* (boundaries 99.0, 100.0).
IdentityBins == {<<7000, 50>>, <<9800, 100>>}



\* =================================================================== store
\* ------------------------------------------------------ SQLite and Python
\* A value held in a column: <<"INTEGER", n>> or <<"TEXT", c>>.
SqlInt(n) == <<"INTEGER", n>>
SqlText(c) == <<"TEXT", c>>

Digits == <<"0", "1", "2", "3", "4", "5", "6", "7", "8", "9">>
IsDigit(c) == \E i \in 1..Len(Digits) : Digits[i] = c
DigitVal(c) == (CHOOSE i \in 1..Len(Digits) : Digits[i] = c) - 1

\* A value bound to an INTEGER column: SQLite's column affinity turns text
\* that reads as an integer into that integer and keeps any other text.
IntegerAffinity(v) ==
    IF v[1] = "TEXT" /\ IsDigit(v[2]) THEN SqlInt(DigitVal(v[2])) ELSE v

\* The characters of the MAG names used (a Python str is indexed by character).
MagChars(name) ==
    CASE name = "mag1" -> <<"m", "a", "g", "1">>
      [] name = "b22"  -> <<"b", "2", "2">>

\* The two kinds of value contig_mag_corresp holds: a str in sqldb_creation
\* (get_mags: contig -> MAG name), a list [mag_name, mag_id, contig_id] in
\* add_sample.
PyStr(name) == [py |-> "str", s |-> name, items |-> <<>>]
PyList(items) == [py |-> "list", s |-> "", items |-> items]

IndexError == <<"IndexError", "">>

\* v[i] in Python: a character of a str, an item of a list.
GetItem(v, i) ==
    IF v.py = "str"
    THEN IF i < Len(MagChars(v.s)) THEN SqlText(MagChars(v.s)[i + 1])
                                   ELSE IndexError
    ELSE IF i < Len(v.items) THEN v.items[i + 1] ELSE IndexError

\* ------------------------------------------------------------ input files
\* A line of a mapping file. t: "comment" (starts with #), "blast" (tabular,
\* ref is column 2, pct column 3, pos1/pos2 columns 9 and 10) or "sam" (ref
\* is column 3, pos1 column 4, md the value of the MD:Z: field when hasmd).
\* segment is line.split() of a sam line: each field begins with MD:Z:
\* ("prefix", value being what follows), holds MD:Z: further in ("inside"),
\* or does not hold it ("none"); hasmd is '"MD:Z:" in line'.
CommentLine ==
    [t |-> "comment", ref |-> "", pct |-> 0, pos1 |-> 0, pos2 |-> 0,
     hasmd |-> FALSE, md |-> <<>>, segment |-> <<>>]
BlastLine(ref, pct, p1, p2) ==
    [t |-> "blast", ref |-> ref, pct |-> pct, pos1 |-> p1, pos2 |-> p2,
     hasmd |-> FALSE, md |-> <<>>, segment |-> <<>>]

Plain == [mdz |-> "none", value |-> <<>>]
MdzField(md) == [mdz |-> "prefix", value |-> md]
InnerField == [mdz |-> "inside", value |-> <<>>]

\* The eleven mandatory fields of a sam line.
Mandatory == [i \in 1..11 |-> Plain]

\* The value of the rightmost field that begins with MD:Z:, if there is one.
TagValue(fields) ==
    IF \E i \in 1..Len(fields) : fields[i].mdz = "prefix"
    THEN fields[CHOOSE i \in 1..Len(fields) :
                    /\ fields[i].mdz = "prefix"
                    /\ \A k \in (i + 1)..Len(fields) : fields[k].mdz # "prefix"].value
    ELSE <<>>

SamFields(ref, pos, optional) ==
    [t |-> "sam", ref |-> ref, pct |-> 0, pos1 |-> pos, pos2 |-> 0,
     hasmd |-> \E i \in 1..Len(optional) : optional[i].mdz # "none",
     md |-> TagValue(optional), segment |-> Mandatory \o optional]

SamLine(ref, pos, md) == SamFields(ref, pos, <<MdzField(md)>>)

BlastA == BlastLine("ctgA", 9850, 100, 150)
BlastB == BlastLine("ctgB", 7060, 30, 10)
BlastX == BlastLine("ctgX", 9900, 1, 50)      \* a contig outside the catalog

BlastLines == {CommentLine, BlastA, BlastB, BlastX}

\* MD:Z:10A5 on ctgA, and an MD:Z: field with an empty value on ctgB.
SamA == SamLine("ctgA", 5, <<"1", "0", "A", "5">>)
SamZero == SamLine("ctgB", 7, <<>>)

\* MD:Z:7 followed by another optional field, and a line that holds MD:Z:
\* only inside a field (as in XA:Z:ctgB,MD:Z:7).
SamTagFirst == SamFields("ctgA", 9, <<MdzField(<<"7">>), Plain>>)
SamInner == SamFields("ctgB", 7, <<InnerField>>)

SamLines == {SamA, SamZero, SamTagFirst, SamInner}

SeqsUpTo(S, n) == UNION {[1..k -> S] : k \in 0..n}

FileContents == SeqsUpTo(BlastLines, MaxLines) \cup SeqsUpTo(SamLines, MaxLines)

FileNames == {"f1", "f2"}

\* The versions of the first file in the runs with several calls.
Revisions ==
    {<<BlastA, BlastX>>, <<BlastB, BlastA>>, <<CommentLine>>,
     <<SamA>>, <<SamA, SamZero>>}

\* The second file does not change.
SecondFile == <<BlastB>>

\* get_mags(mags): contig -> MAG name, in the order of the file.
Memberships ==
    {<<<<"ctgA", "mag1">>, <<"ctgB", "mag1">>>>,
     <<<<"ctgA", "mag1">>, <<"ctgB", "b22">>>>}

\* read_contigs(contigs): the FASTA file holds both contigs of the MAG file,
\* or lacks the second one, or holds one that the MAG file does not list.
AllContigs == <<<<"ctgA", 300>>, <<"ctgB", 200>>>>

ContigFiles ==
    {AllContigs, <<<<"ctgA", 300>>>>,
     <<<<"ctgA", 300>>, <<"ctgB", 200>>, <<"ctgX", 100>>>>}

Formats == {"blast", "sam", "bam", "fasta"}

\* ---------------------------------------------------------------- catalog
\* The loop over contig_mag_corresp.items() of sqldb_creation: MAG ids in
\* first-seen order, contig ids in file order.
RECURSIVE ContigIdentifiers(_, _, _, _)
ContigIdentifiers(pairs, mag_ids, mag_id, contig_id) ==
    IF pairs = <<>> THEN <<>>
    ELSE LET contig_name == Head(pairs)[1]
             mag_name    == Head(pairs)[2]
         IN IF mag_name \in DOMAIN mag_ids
            THEN <<[mag_name |-> mag_name, mag_id |-> mag_ids[mag_name],
                    contig_name |-> contig_name, contig_id |-> contig_id]>>
                 \o ContigIdentifiers(Tail(pairs), mag_ids, mag_id, contig_id + 1)
            ELSE <<[mag_name |-> mag_name, mag_id |-> mag_id + 1,
                    contig_name |-> contig_name, contig_id |-> contig_id]>>
                 \o ContigIdentifiers(Tail(pairs),
                        [n \in DOMAIN mag_ids \cup {mag_name} |->
                            IF n = mag_name THEN mag_id + 1 ELSE mag_ids[n]],
                        mag_id + 1, contig_id + 1)

EmptyDict == [n \in {} |-> 0]

LookupTable(pairs) == ContigIdentifiers(pairs, EmptyDict, 0, 1)

\* contig_mag_corresp as sqldb_creation hands it to save_reads_mapped: the
\* dict get_mags returned.
MagsDict(pairs) ==
    [c \in {pairs[i][1] : i \in 1..Len(pairs)} |->
        PyStr((CHOOSE q \in {pairs[i] : i \in 1..Len(pairs)} : q[1] = c)[2])]

\* contig_mag_corresp as add_sample builds it from lookup_table.
LookupDict(lookup) ==
    [c \in {lookup[i].contig_name : i \in 1..Len(lookup)} |->
        LET row == lookup[CHOOSE i \in 1..Len(lookup) :
                              /\ lookup[i].contig_name = c
                              /\ \A k \in (i + 1)..Len(lookup) :
                                     lookup[k].contig_name # c]
        IN PyList(<<SqlText(row.mag_name), SqlInt(row.mag_id),
                    SqlInt(row.contig_id)>>)]

\* ------------------------------------------------------ save_reads_mapped
\* re.findall('[0-9]+', mdz_seg) summed: the digit runs of the tag value.
RECURSIVE SumDigitRuns(_, _)
SumDigitRuns(chars, run) ==
    IF chars = <<>> THEN run
    ELSE IF IsDigit(Head(chars))
         THEN SumDigitRuns(Tail(chars), run * 10 + DigitVal(Head(chars)))
         ELSE run + SumDigitRuns(Tail(chars), 0)

\* len(''.join([i for i in mdz_seg if not i.isdigit()]))
NonDigits(chars) == Cardinality({i \in 1..Len(chars) : ~IsDigit(chars[i])})

Row(mag_id, contig_id, identity, start, stop) ==
    [mag_id |-> mag_id, contig_id |-> contig_id, identity |-> identity,
     start |-> start, stop |-> stop]

NoRow == Row(SqlInt(0), SqlInt(0), 0, 0, 0)

Parsed(kind, ref, row) == [kind |-> kind, ref |-> ref, row |-> row]

\* mag_id = contig_mag_corresp[contig_ref][1], contig_id = ...[2], and the
\* append to records; the values are bound to INTEGER columns.
Record(corresp, ref, identity, start, stop) ==
    LET mag_id    == GetItem(corresp[ref], 1)
        contig_id == GetItem(corresp[ref], 2)
    IN IF mag_id = IndexError \/ contig_id = IndexError
       THEN Parsed("IndexError", ref, NoRow)
       ELSE Parsed("hit", ref,
                   Row(IntegerAffinity(mag_id), IntegerAffinity(contig_id),
                       identity, start, stop))

\* The body of the loop for one line of a tabular file.
BlastRecord(line, corresp) ==
    IF line.t = "comment" THEN Parsed("skip", "", NoRow)
    \* column 2 of a sam line is its FLAG, a number and no contig name
    ELSE IF line.t # "blast" \/ line.ref \notin DOMAIN corresp
         THEN Parsed("skip", "", NoRow)
         ELSE LET start == Min(line.pos1, line.pos2)
                  end   == start + (Max(line.pos1, line.pos2)
                                    - Min(line.pos1, line.pos2))
              IN Record(corresp, line.ref, line.pct, start, end)

\* The scan from the last field of segment to the first one that begins with
\* MD:Z:; iter below -len(segment) is an IndexError.
RECURSIVE MdzScan(_, _)
MdzScan(segment, iter) ==
    IF iter < 0 - Len(segment)
    THEN [found |-> FALSE, iter |-> iter, value |-> <<>>]
    ELSE LET mdz_seg == At(segment, PyIndex(iter, Len(segment)))
         IN IF mdz_seg.mdz = "prefix"
            THEN [found |-> TRUE, iter |-> iter, value |-> mdz_seg.value]
            ELSE MdzScan(segment, iter - 1)

\* entry.get_tag("MD"): KeyError when the entry has no MD tag.
GetTag(segment) ==
    IF \E i \in 1..Len(segment) : segment[i].mdz = "prefix"
    THEN [found |-> TRUE, iter |-> 0, value |-> TagValue(segment)]
    ELSE [found |-> FALSE, iter |-> 0, value |-> <<>>]

\* From the tag value to the record. The identity (sum / total_count) * 100
\* is exact in hundredths for the tags modelled.
MdzRecord(line, corresp, mdz_seg) ==
    LET sum         == SumDigitRuns(mdz_seg, 0)
        total_count == NonDigits(mdz_seg) + sum
    IN IF total_count = 0
       THEN Parsed("ZeroDivisionError", line.ref, NoRow)
       ELSE Record(corresp, line.ref, (sum * 10000) \div total_count,
                   line.pos1, line.pos1 + total_count - 1)

\* The body of the loop for one sam line.
SamRecord(line, corresp) ==
    IF ~(line.t = "sam" /\ line.hasmd) THEN Parsed("skip", "", NoRow)
    ELSE IF line.ref \notin DOMAIN corresp THEN Parsed("skip", "", NoRow)
         ELSE LET scan == MdzScan(line.segment, Len(line.segment) - 1)
              IN IF ~scan.found THEN Parsed("IndexError", line.ref, NoRow)
                 ELSE MdzRecord(line, corresp, scan.value)

\* The body of the loop for one bam entry.
BamRecord(line, corresp) ==
    IF ~(line.t = "sam" /\ line.hasmd) THEN Parsed("skip", "", NoRow)
    ELSE IF line.ref \notin DOMAIN corresp THEN Parsed("skip", "", NoRow)
         ELSE LET tag == GetTag(line.segment)
              IN IF ~tag.found THEN Parsed("KeyError", line.ref, NoRow)
                 ELSE MdzRecord(line, corresp, tag.value)

ParseLine(line, fmt, corresp) ==
    IF fmt = "blast" THEN BlastRecord(line, corresp)
    ELSE IF fmt = "sam" THEN SamRecord(line, corresp)
                        ELSE BamRecord(line, corresp)

AppendNew(list, x) ==
    IF \E i \in 1..Len(list) : list[i] = x THEN list ELSE Append(list, x)

\* "for line in input_reads" from line pos on, up to the point where the loop
\* stops to write: status "flush" (record_counter reached the batch size and
\* line pos is still to be handled), "eof", or the exception raised.
RECURSIVE ReadLoop(_, _, _, _, _, _, _, _)
ReadLoop(lines, pos, recs, counter, seen, fmt, corresp, size) ==
    IF pos = Len(lines)
    THEN [status |-> "eof", ln |-> pos, records |-> recs,
          record_counter |-> counter, contigs_in_sample |-> seen]
    ELSE IF counter = size
    THEN [status |-> "flush", ln |-> pos, records |-> recs,
          record_counter |-> counter, contigs_in_sample |-> seen]
    ELSE LET p == ParseLine(At(lines, pos), fmt, corresp)
         IN IF p.kind = "skip"
            THEN ReadLoop(lines, pos + 1, recs, counter, seen, fmt, corresp, size)
            ELSE IF p.kind = "hit"
            THEN ReadLoop(lines, pos + 1, Append(recs, p.row), counter + 1,
                          AppendNew(seen, p.ref), fmt, corresp, size)
            ELSE [status |-> p.kind, ln |-> pos, records |-> recs,
                  record_counter |-> counter,
                  contigs_in_sample |-> AppendNew(seen, p.ref)]

\* The MAGs of the contigs seen, in lookup_table order, each once.
RECURSIVE MagsInSample(_, _, _)
MagsInSample(all_contigs, seen, mags) ==
    IF all_contigs = <<>> THEN mags
    ELSE LET element == Head(all_contigs)
         IN IF (\E i \in 1..Len(seen) : seen[i] = element.contig_name)
               /\ ~(\E i \in 1..Len(mags) : mags[i] = element.mag_name)
            THEN MagsInSample(Tail(all_contigs), seen, Append(mags, element.mag_name))
            ELSE MagsInSample(Tail(all_contigs), seen, mags)


\* --------------------------------------------------------- database state
EmptyTables == [n \in {} |-> <<>>]

EmptyDb ==
    [created |-> FALSE, lookup_table |-> <<>>, mag_info |-> <<>>,
     sample_info |-> <<>>, mags_per_sample |-> <<>>, tables |-> EmptyTables]

\* DROP TABLE IF EXISTS sample_<s>
DropTable(tables, s) == [n \in DOMAIN tables \ {s} |-> tables[n]]

\* CREATE TABLE sample_<s> (the table does not exist)
CreateTable(tables, s) ==
    [n \in DOMAIN tables \cup {s} |-> IF n = s THEN <<>> ELSE tables[n]]

\* The DELETE of the rebuild left out.
DeleteMagsNone(rows, name) == rows

\* DELETE FROM mags_per_sample WHERE sample_name = ?
DeleteMags(rows, name) == SelectSeq(rows, LAMBDA r : r.sample_name # name)

\* open: between "begin" and "commit"; rows: inserted and not committed;
\* done: the records executemany has gone through.
NoTxn == [open |-> FALSE, rows |-> <<>>, done |-> 0]

\* executemany outside a transaction: every row is committed on its own.
WriteRowAutocommit(d, t, s, row) ==
    [db  |-> [d EXCEPT !.tables[s] = Append(@, row)],
     txn |-> t]

\* One INSERT of executemany, between "begin" and "commit": the row belongs
\* to the open transaction and not yet to the committed table.
WriteRow(d, t, s, row) ==
    [db  |-> d,
     txn |-> [t EXCEPT !.rows = Append(@, row)]]

\* records after the write inside the loop, with "records = []" forgotten.
RecordsKept(recs) == recs

\* records = [] after the write inside the loop.
RecordsAfterFlush(recs) == <<>>

NoCur == [file |-> "", sample |-> 0, rebuild |-> FALSE]

NoOrig == [known |-> FALSE, fmt |-> "", hits |-> <<>>]

Supported(fmt) == fmt = "sam" \/ fmt = "bam" \/ fmt = "blast"

\* The file lists of the calls modelled.
CreationLists == {<<"f1">>, <<"f1", "f2">>}
AddLists == {<<"f1">>, <<"f2">>, <<"f2", "f2">>}

MaxOf(S) == IF S = {} THEN 0 ELSE CHOOSE x \in S : \A y \in S : y <= x

\* ------------------------------------------------------------- the calls
\* The locals of a call that has ended.
ClearLocals ==
    /\ todo' = <<>>
    /\ contig_mag_corresp' = EmptyDict
    /\ samples_dict' = EmptyDict
    /\ last_sample' = 0
    /\ ln' = 0
    /\ records' = <<>>
    /\ record_counter' = 0
    /\ contigs_in_sample' = <<>>
    /\ at_eof' = FALSE
    /\ txn' = NoTxn

\* An uncaught exception ends the process: the open transaction is rolled
\* back, what was committed stays.
Raise(err) ==
    /\ pc' = "idle"
    /\ outcome' = err
    /\ ClearLocals
    /\ UNCHANGED <<op, map_format, cur, pre, orig, files, membership, contigs,
                 batch>>

StartRead ==
    /\ ln' = 0
    /\ records' = <<>>
    /\ record_counter' = 0
    /\ contigs_in_sample' = <<>>
    /\ at_eof' = FALSE

\* sqldb_creation up to the loop over the samples: the tables are created
\* anew, sample_info and lookup_table are filled, and each sample gets an
\* empty table.
RECURSIVE RecreateTables(_, _)
RecreateTables(tables, n) ==
    IF n = 0 THEN tables
    ELSE CreateTable(DropTable(RecreateTables(tables, n - 1), n), n)

\* cursor.fetchone() on lookup_table for a contig of the FASTA file: the
\* row found, or None.
FetchOne(lookup, contig) ==
    IF \E i \in 1..Len(lookup) : lookup[i].contig_name = contig
    THEN <<lookup[CHOOSE i \in 1..Len(lookup) :
                     /\ lookup[i].contig_name = contig
                     /\ \A k \in 1..(i - 1) : lookup[k].contig_name # contig]>>
    ELSE <<>>

\* The loop over contig_sizes.items() that fills contig_lengths: one row
\* (mag_id, contig_id, contig_len) per contig of the FASTA file.
ContigLengths(sizes, lookup) ==
    [i \in 1..Len(sizes) |->
        LET mag_contig_id == FetchOne(lookup, sizes[i][1])
        IN [mag_id |-> mag_contig_id[1].mag_id,
            contig_id |-> mag_contig_id[1].contig_id,
            contig_len |-> sizes[i][2]]]

\* mag_contig_id[0] on None raises TypeError.
JoinFails(sizes, lookup) ==
    \E i \in 1..Len(sizes) : FetchOne(lookup, sizes[i][1]) = <<>>

sqldb_creation ==
    /\ pc = "idle"
    /\ ~db.created
    /\ \E sample_reads \in CreationLists, fmt \in Formats :
          LET lookup == LookupTable(membership)
              info   == [i \in 1..Len(sample_reads) |->
                            [sample_name |-> sample_reads[i], sample_id |-> i,
                             sample_number |-> i]]
          IN /\ map_format' = fmt
             /\ IF JoinFails(contigs, lookup)
                THEN /\ db' = [created |-> TRUE, lookup_table |-> lookup,
                               mag_info |-> <<>>, sample_info |-> info,
                               mags_per_sample |-> <<>>, tables |-> db.tables]
                     /\ todo' = <<>>
                     /\ contig_mag_corresp' = EmptyDict
                     /\ pc' = "idle"
                     /\ outcome' = "TypeError"
                ELSE /\ db' = [created |-> TRUE, lookup_table |-> lookup,
                               mag_info |-> ContigLengths(contigs, lookup),
                               sample_info |-> info,
                               mags_per_sample |-> <<>>,
                               tables |-> RecreateTables(db.tables,
                                                         Len(sample_reads))]
                     /\ todo' = [i \in 1..Len(sample_reads) |->
                                    [file |-> sample_reads[i], sample |-> i]]
                     /\ contig_mag_corresp' = MagsDict(membership)
                     /\ pc' = "loop"
                     /\ outcome' = "running"
    /\ op' = "sqldb_creation"
    /\ cur' = NoCur
    /\ pre' = db
    /\ orig' = [f \in FileNames |-> NoOrig]
    /\ UNCHANGED <<files, membership, contigs, batch, txn, samples_dict,
                   last_sample, ln, records, record_counter, contigs_in_sample,
                   at_eof>>

\* "for sample_name, mapping_file in sampleid_to_sample.items()": the call of
\* save_reads_mapped for the next sample.
sqldb_next ==
    /\ pc = "loop" /\ op = "sqldb_creation" /\ todo # <<>>
    /\ cur' = [file |-> Head(todo).file, sample |-> Head(todo).sample,
               rebuild |-> FALSE]
    /\ todo' = Tail(todo)
    /\ pc' = "read"
    /\ StartRead
    /\ UNCHANGED <<files, membership, contigs, batch, db, txn, op, map_format,
                   contig_mag_corresp, samples_dict, last_sample, outcome, pre,
                   orig>>

\* add_sample up to its loop: samples_dict, last_sample and
\* contig_mag_corresp are read from the database.
add_sample ==
    /\ pc = "idle"
    /\ db.created
    /\ \E new_mapping_files \in AddLists, fmt \in Formats :
          /\ todo' = [i \in 1..Len(new_mapping_files) |->
                         [file |-> new_mapping_files[i], sample |-> 0]]
          /\ map_format' = fmt
    /\ op' = "add_sample"
    /\ samples_dict' =
          [name \in {db.sample_info[i].sample_name : i \in 1..Len(db.sample_info)} |->
              db.sample_info[CHOOSE i \in 1..Len(db.sample_info) :
                  /\ db.sample_info[i].sample_name = name
                  /\ \A k \in (i + 1)..Len(db.sample_info) :
                         db.sample_info[k].sample_name # name].sample_id]
    /\ last_sample' = MaxOf({db.sample_info[i].sample_number :
                                i \in 1..Len(db.sample_info)})
    /\ contig_mag_corresp' = LookupDict(db.lookup_table)
    /\ pc' = "loop"
    /\ cur' = NoCur
    /\ pre' = db
    /\ outcome' = "running"
    /\ UNCHANGED <<files, membership, contigs, batch, db, txn, ln, records,
                   record_counter, contigs_in_sample, at_eof, orig>>

\* The table of the newest sample taken for the table of the file.
NewestSample(dict, newest, name) == newest

\* sample_name = samples_dict[new_sample]
RebuildTarget(dict, newest, name) == dict[name]

\* new_sample in samples_dict: DROP TABLE IF EXISTS.
add_sample_drop ==
    /\ pc = "loop" /\ op = "add_sample" /\ todo # <<>>
    /\ Head(todo).file \in DOMAIN samples_dict
    /\ cur' = [file |-> Head(todo).file,
               sample |-> RebuildTarget(samples_dict, last_sample, Head(todo).file),
               rebuild |-> TRUE]
    /\ todo' = Tail(todo)
    /\ db' = [db EXCEPT !.tables =
                 DropTable(@, RebuildTarget(samples_dict, last_sample,
                                            Head(todo).file))]
    /\ pc' = "create"
    /\ UNCHANGED <<files, membership, contigs, batch, txn, op, map_format,
                   contig_mag_corresp, samples_dict, last_sample, ln, records,
                   record_counter, contigs_in_sample, at_eof, outcome, pre, orig>>

\* CREATE TABLE of the rebuild; it fails when the table is still there.
add_sample_create ==
    /\ pc = "create"
    /\ IF cur.sample \in DOMAIN db.tables
       THEN Raise("OperationalError") /\ UNCHANGED db
       ELSE /\ db' = [db EXCEPT !.tables = CreateTable(@, cur.sample)]
            /\ pc' = "delete"
            /\ UNCHANGED <<files, membership, contigs, batch, txn, op, map_format, todo,
                           cur, contig_mag_corresp, samples_dict, last_sample,
                           ln, records, record_counter, contigs_in_sample,
                           at_eof, outcome, pre, orig>>

\* DELETE FROM mags_per_sample, conn.commit(), and the call of
\* save_reads_mapped.
add_sample_delete ==
    /\ pc = "delete"
    /\ db' = [db EXCEPT !.mags_per_sample = DeleteMags(@, cur.file)]
    /\ pc' = "read"
    /\ StartRead
    /\ UNCHANGED <<files, membership, contigs, batch, txn, op, map_format, todo, cur,
                   contig_mag_corresp, samples_dict, last_sample, outcome, pre,
                   orig>>

\* new_sample not in samples_dict: sample_<last_sample + 1>, CREATE TABLE,
\* and the call of save_reads_mapped.
add_sample_new ==
    /\ pc = "loop" /\ op = "add_sample" /\ todo # <<>>
    /\ Head(todo).file \notin DOMAIN samples_dict
    /\ IF last_sample + 1 \in DOMAIN db.tables
       THEN /\ Raise("OperationalError")
            /\ UNCHANGED db
       ELSE /\ cur' = [file |-> Head(todo).file, sample |-> last_sample + 1,
                       rebuild |-> FALSE]
            /\ last_sample' = last_sample + 1
            /\ todo' = Tail(todo)
            /\ db' = [db EXCEPT !.tables = CreateTable(@, last_sample + 1)]
            /\ pc' = "read"
            /\ StartRead
            /\ UNCHANGED <<files, membership, contigs, batch, txn, op, map_format,
                           contig_mag_corresp, samples_dict, outcome, pre, orig>>

\* save_reads_mapped: the assert on the format, then the loop over the lines
\* up to the next write to the database.
save_reads_mapped ==
    /\ pc = "read"
    /\ IF ~Supported(map_format)
       THEN Raise("AssertionError") /\ UNCHANGED db
       ELSE LET r == ReadLoop(files[cur.file], ln, records, record_counter,
                              contigs_in_sample, map_format,
                              contig_mag_corresp, batch)
            IN IF r.status \notin {"flush", "eof"}
               THEN Raise(r.status) /\ UNCHANGED db
               ELSE /\ ln' = r.ln
                    /\ records' = r.records
                    /\ record_counter' = r.record_counter
                    /\ contigs_in_sample' = r.contigs_in_sample
                    /\ at_eof' = (r.status = "eof")
                    /\ pc' = IF r.status = "eof" /\ r.record_counter = 0
                             THEN "index" ELSE "begin"
                    /\ UNCHANGED <<files, membership, contigs, batch, db, txn, op,
                                   map_format, todo, cur, contig_mag_corresp,
                                   samples_dict, last_sample, outcome, pre, orig>>

\* cursor.execute("begin")
save_reads_begin ==
    /\ pc = "begin"
    /\ txn' = [open |-> TRUE, rows |-> <<>>, done |-> 0]
    /\ pc' = "insert"
    /\ UNCHANGED <<files, membership, contigs, batch, db, op, map_format, todo, cur,
                   contig_mag_corresp, samples_dict, last_sample, ln, records,
                   record_counter, contigs_in_sample, at_eof, outcome, pre, orig>>

\* cursor.executemany('INSERT INTO ...', records), one row at a time.
save_reads_insert ==
    /\ pc = "insert"
    /\ txn.done < Len(records)
    /\ LET w == WriteRow(db, txn, cur.sample, records[txn.done + 1])
       IN /\ db' = w.db
          /\ txn' = [w.txn EXCEPT !.done = txn.done + 1]
    /\ pc' = IF txn.done + 1 = Len(records) THEN "commit" ELSE "insert"
    /\ UNCHANGED <<files, membership, contigs, batch, op, map_format, todo, cur,
                   contig_mag_corresp, samples_dict, last_sample, ln, records,
                   record_counter, contigs_in_sample, at_eof, outcome, pre, orig>>

\* cursor.execute("commit"); inside the loop record_counter and records are
\* reset and the loop goes on with the line it stopped at.
save_reads_commit ==
    /\ pc = "commit"
    /\ db' = [db EXCEPT !.tables[cur.sample] = @ \o txn.rows]
    /\ txn' = NoTxn
    /\ records' = RecordsAfterFlush(records)
    /\ record_counter' = 0
    /\ pc' = IF at_eof THEN "index" ELSE "read"
    /\ UNCHANGED <<files, membership, contigs, batch, op, map_format, todo, cur,
                   contig_mag_corresp, samples_dict, last_sample, ln,
                   contigs_in_sample, at_eof, outcome, pre, orig>>

\* CREATE INDEX sample_<n>_index, conn.commit(), return contigs_in_sample.
\* The table was created by this call, so the index name is free.
save_reads_index ==
    /\ pc = "index"
    /\ pc' = "mags"
    /\ records' = <<>>
    /\ UNCHANGED <<files, membership, contigs, batch, db, txn, op, map_format, todo, cur,
                   contig_mag_corresp, samples_dict, last_sample, ln,
                   record_counter, contigs_in_sample, at_eof, outcome, pre, orig>>

MagRows(lookup, seen, name) ==
    LET mags_in_sample == MagsInSample(lookup, seen, <<>>)
    IN [i \in 1..Len(mags_in_sample) |->
           [sample_name |-> name, mag_name |-> mags_in_sample[i]]]

\* sqldb_creation: the MAGs of the sample go to mags_per_sample; the sample
\* is done.
sqldb_mags ==
    /\ pc = "mags" /\ op = "sqldb_creation"
    /\ db' = [db EXCEPT !.mags_per_sample =
                 @ \o MagRows(db.lookup_table, contigs_in_sample, cur.file)]
    /\ orig' = [orig EXCEPT ![cur.file] =
                   [known |-> TRUE, fmt |-> map_format,
                    hits |-> db.tables[cur.sample]]]
    /\ pc' = "loop"
    /\ UNCHANGED <<files, membership, contigs, batch, txn, op, map_format, todo, cur,
                   contig_mag_corresp, samples_dict, last_sample, ln, records,
                   record_counter, contigs_in_sample, at_eof, outcome, pre>>

\* add_sample: the MAGs of the sample go to mags_per_sample in a transaction
\* of their own; a rebuilt sample is done, a new one is still to be
\* recorded in sample_info.
add_sample_mags ==
    /\ pc = "mags" /\ op = "add_sample"
    /\ db' = [db EXCEPT !.mags_per_sample =
                 @ \o MagRows(db.lookup_table, contigs_in_sample, cur.file)]
    /\ pc' = IF cur.rebuild THEN "loop" ELSE "register"
    /\ UNCHANGED <<files, membership, contigs, batch, txn, op, map_format, todo, cur,
                   contig_mag_corresp, samples_dict, last_sample, ln, records,
                   record_counter, contigs_in_sample, at_eof, outcome, pre, orig>>

\* INSERT INTO sample_info of a new sample; sample_index is unique on
\* sample_name.
add_sample_register ==
    /\ pc = "register"
    /\ IF \E i \in 1..Len(db.sample_info) : db.sample_info[i].sample_name = cur.file
       THEN Raise("IntegrityError") /\ UNCHANGED db
       ELSE /\ db' = [db EXCEPT !.sample_info =
                         Append(@, [sample_name |-> cur.file,
                                    sample_id |-> cur.sample,
                                    sample_number |-> last_sample])]
            /\ orig' = [orig EXCEPT ![cur.file] =
                           [known |-> TRUE, fmt |-> map_format,
                            hits |-> db.tables[cur.sample]]]
            /\ pc' = "loop"
            /\ UNCHANGED <<files, membership, contigs, batch, txn, op, map_format, todo,
                           cur, contig_mag_corresp, samples_dict, last_sample,
                           ln, records, record_counter, contigs_in_sample,
                           at_eof, outcome, pre>>

\* The loop over the files is over: conn.commit(), conn.close().
call_return ==
    /\ pc = "loop" /\ todo = <<>>
    /\ pc' = "idle"
    /\ outcome' = "ok"
    /\ cur' = NoCur
    /\ pre' = EmptyDb
    /\ op' = ""
    /\ map_format' = ""
    /\ ClearLocals
    /\ UNCHANGED <<files, membership, contigs, batch, db, orig>>

\* The process is stopped in the middle of a call.
interrupt ==
    /\ pc # "idle"
    /\ Raise("interrupted")
    /\ UNCHANGED db

\* Between two calls the first mapping file is replaced by another one.
edit_file ==
    /\ pc = "idle"
    /\ \E c \in Revisions \ {files["f1"]} :
          files' = [files EXCEPT !["f1"] = c]
    /\ orig' = [orig EXCEPT !["f1"] = NoOrig]
    /\ outcome' = "none"
    /\ cur' = NoCur
    /\ pre' = EmptyDb
    /\ UNCHANGED <<membership, contigs, batch, db, txn, pc, op, map_format, todo,
                   contig_mag_corresp, samples_dict, last_sample, ln, records,
                   record_counter, contigs_in_sample, at_eof>>

MatrixIdle ==
    /\ mpc = "off"
    /\ contig_sizes = <<>>
    /\ width = 1
    /\ bin_height = 1
    /\ id_lower = 0
    /\ id_breaks = <<>>
    /\ matrices = <<>>
    /\ nreads = 0
    /\ read_mapped = NoRead
    /\ credits = <<>>

StoreIdle ==
    /\ files = [f \in FileNames |-> <<>>]
    /\ membership = <<>>
    /\ contigs = <<>>
    /\ batch = 1
    /\ db = EmptyDb
    /\ txn = NoTxn
    /\ pc = "off"
    /\ op = ""
    /\ map_format = ""
    /\ todo = <<>>
    /\ cur = NoCur
    /\ contig_mag_corresp = EmptyDict
    /\ samples_dict = EmptyDict
    /\ last_sample = 0
    /\ ln = 0
    /\ records = <<>>
    /\ record_counter = 0
    /\ contigs_in_sample = <<>>
    /\ at_eof = FALSE
    /\ outcome = "none"
    /\ pre = EmptyDb
    /\ orig = [f \in FileNames |-> NoOrig]

Init ==
    /\ MatrixIdle
    /\ files \in [FileNames -> Revisions \cup {SecondFile}]
    /\ files["f1"] \in Revisions
    /\ files["f2"] = SecondFile
    /\ membership \in Memberships
    /\ contigs = AllContigs
    /\ batch \in 1..MaxBatch
    /\ db = EmptyDb
    /\ txn = NoTxn
    /\ pc = "idle"
    /\ op = ""
    /\ map_format = ""
    /\ todo = <<>>
    /\ cur = NoCur
    /\ contig_mag_corresp = EmptyDict
    /\ samples_dict = EmptyDict
    /\ last_sample = 0
    /\ ln = 0
    /\ records = <<>>
    /\ record_counter = 0
    /\ contigs_in_sample = <<>>
    /\ at_eof = FALSE
    /\ outcome = "none"
    /\ pre = EmptyDb
    /\ orig = [f \in FileNames |-> NoOrig]

Next ==
    \/ (sqldb_creation /\ UNCHANGED mvars)
    \/ (sqldb_next /\ UNCHANGED mvars)
    \/ (add_sample /\ UNCHANGED mvars)
    \/ (add_sample_drop /\ UNCHANGED mvars)
    \/ (add_sample_create /\ UNCHANGED mvars)
    \/ (add_sample_delete /\ UNCHANGED mvars)
    \/ (add_sample_new /\ UNCHANGED mvars)
    \/ (save_reads_mapped /\ UNCHANGED mvars)
    \/ (save_reads_begin /\ UNCHANGED mvars)
    \/ (save_reads_insert /\ UNCHANGED mvars)
    \/ (save_reads_commit /\ UNCHANGED mvars)
    \/ (save_reads_index /\ UNCHANGED mvars)
    \/ (sqldb_mags /\ UNCHANGED mvars)
    \/ (add_sample_mags /\ UNCHANGED mvars)
    \/ (add_sample_register /\ UNCHANGED mvars)
    \/ (call_return /\ UNCHANGED mvars)
    \/ (edit_file /\ UNCHANGED mvars)

\* The store over several calls, each running to its end or to an exception.
Spec == Init /\ [][Next]_vars

\* The first ingestion on its own: sqldb_creation on any mapping file of at
\* most MaxLines lines, with any batch size, stopped at any point.
InitIngest ==
    /\ MatrixIdle
    /\ files \in [FileNames -> FileContents]
    /\ files["f2"] = SecondFile
    /\ membership \in Memberships
    /\ contigs \in ContigFiles
    /\ batch \in 1..MaxBatch
    /\ db = EmptyDb
    /\ txn = NoTxn
    /\ pc = "idle"
    /\ op = ""
    /\ map_format = ""
    /\ todo = <<>>
    /\ cur = NoCur
    /\ contig_mag_corresp = EmptyDict
    /\ samples_dict = EmptyDict
    /\ last_sample = 0
    /\ ln = 0
    /\ records = <<>>
    /\ record_counter = 0
    /\ contigs_in_sample = <<>>
    /\ at_eof = FALSE
    /\ outcome = "none"
    /\ pre = EmptyDb
    /\ orig = [f \in FileNames |-> NoOrig]

NextIngest ==
    \/ (sqldb_creation /\ UNCHANGED mvars)
    \/ (sqldb_next /\ UNCHANGED mvars)
    \/ (save_reads_mapped /\ UNCHANGED mvars)
    \/ (save_reads_begin /\ UNCHANGED mvars)
    \/ (save_reads_insert /\ UNCHANGED mvars)
    \/ (save_reads_commit /\ UNCHANGED mvars)
    \/ (save_reads_index /\ UNCHANGED mvars)
    \/ (sqldb_mags /\ UNCHANGED mvars)
    \/ (call_return /\ UNCHANGED mvars)
    \/ (interrupt /\ UNCHANGED mvars)

SpecIngest == InitIngest /\ [][NextIngest]_vars

\* The matrices on their own: the store does not move.
InitMatrix ==
    /\ StoreIdle
    /\ mpc = "prepare"
    /\ \E len \in 1..MaxLen : contig_sizes = <<<<1, len>>>>
    /\ width \in 1..MaxWidth
    /\ \E b \in IdentityBins : id_lower = b[1] /\ bin_height = b[2]
    /\ id_breaks = <<>>
    /\ matrices = <<>>
    /\ nreads = 0
    /\ read_mapped = NoRead
    /\ credits = <<>>

NextMatrix ==
    \/ (prepare_numpy_matrices /\ UNCHANGED svars)
    \/ (fill_matrices /\ UNCHANGED svars)

SpecMatrix == InitMatrix /\ [][NextMatrix]_vars

\* The matrices of one long contig: 2350 bases in bins of width 1000.
InitLong ==
    /\ StoreIdle
    /\ mpc = "prepare"
    /\ contig_sizes = <<<<1, 2350>>>>
    /\ width = 1000
    /\ \E b \in IdentityBins : id_lower = b[1] /\ bin_height = b[2]
    /\ id_breaks = <<>>
    /\ matrices = <<>>
    /\ nreads = 0
    /\ read_mapped = NoRead
    /\ credits = <<>>

SpecLong == InitLong /\ [][NextMatrix]_vars

\* ------------------------------------------------ properties of the matrices
OnMatrix == mpc = "fill" /\ read_mapped # NoRead
            /\ read_mapped.contig_id \in DOMAIN matrices

Accepted == OnMatrix /\ read_mapped.identity >= id_breaks[1]

ReadLen == read_mapped.stop - read_mapped.start + 1

BasesOf(cs) == SumSeq([k \in 1..Len(cs) |-> cs[k].bases])

RowTotal(row) == SumSeq(row)

MatrixTotal(arr) == SumSeq([r \in 1..Len(arr) |-> RowTotal(arr[r])])

RowsTouched(arr) == {r \in 1..Len(arr) : RowTotal(arr[r]) > 0}

\* C1: a row below the lowest identity boundary adds nothing to any cell of
\* the matrix (the first row read leaves the matrix all zero), and a row at
\* or above the lowest boundary and below the second one is credited to
\* identity bin 0 only.
C1_BelowFloorExcluded ==
    (OnMatrix /\ nreads = 1) =>
        LET arr == matrices[read_mapped.contig_id].arr
        IN /\ read_mapped.identity < id_breaks[1] => MatrixTotal(arr) = 0
           /\ (read_mapped.identity >= id_breaks[1]
               /\ read_mapped.identity < id_breaks[2]) => RowsTouched(arr) = {1}

\* C2: for a row on a contig of the matrix with identity at or above the
\* lowest boundary, the bases credited over the position bins it spans sum
\* to stop - start + 1, in distinct bins, and that is what the matrix gains.
C2_Conservation ==
    Accepted =>
        /\ BasesOf(credits) = ReadLen
        /\ \A i, k \in 1..Len(credits) : i # k => credits[i].col # credits[k].col
        /\ nreads = 1 => MatrixTotal(matrices[read_mapped.contig_id].arr) = ReadLen

\* C2 witness: an accepted row that is split over three position bins.
C2_Witness == Accepted /\ Len(credits) >= 3

BinSizes(m) == [i \in 1..Len(m.starts) |-> m.ends[i] - m.starts[i] + 1]

\* C3: every contig of length L gets max(1, floor(L / width)) position bins;
\* the first starts at 1, each bin ends right before the next one starts,
\* the last one ends at L and the bin sizes sum to L.
C3_BinsPartition ==
    mpc = "fill" =>
        \A cid \in DOMAIN matrices :
            LET m == matrices[cid]
                L == LengthOf(contig_sizes, cid)
                n == Len(m.starts)
            IN /\ n = Max(1, L \div width)
               /\ Len(m.ends) = n
               /\ m.starts[1] = 1
               /\ \A i \in 1..(n - 1) : m.ends[i] + 1 = m.starts[i + 1]
               /\ m.ends[n] = L
               /\ SumSeq(BinSizes(m)) = L

\* C3 witness: a contig cut into two or more bins whose length is not a
\* multiple of the number of bins.
C3_Witness ==
    /\ mpc = "fill"
    /\ \E cid \in DOMAIN matrices :
          /\ Len(matrices[cid].starts) >= 2
          /\ LengthOf(contig_sizes, cid) % Len(matrices[cid].starts) # 0

\* --------------------------------------------------- properties of the store
\* What the specification calls the retained lines of a file and their hits,
\* stated over the file and the catalog (lookup_table) alone.
InCatalog(lookup, ref) == \E i \in 1..Len(lookup) : lookup[i].contig_name = ref

CatalogEntry(lookup, ref) ==
    lookup[CHOOSE i \in 1..Len(lookup) : lookup[i].contig_name = ref]

Retained(line, fmt, lookup) ==
    IF fmt = "blast"
    THEN line.t = "blast" /\ InCatalog(lookup, line.ref)
    ELSE line.t = "sam" /\ line.hasmd /\ InCatalog(lookup, line.ref)

HitOf(line, fmt) ==
    IF fmt = "blast"
    THEN [identity |-> line.pct, start |-> Min(line.pos1, line.pos2),
          stop |-> Max(line.pos1, line.pos2)]
    ELSE LET matched == SumDigitRuns(line.md, 0)
             total   == matched + NonDigits(line.md)
         IN [identity |-> IF total = 0 THEN 0 ELSE (matched * 10000) \div total,
             start |-> line.pos1, stop |-> line.pos1 + total - 1]

RetainedLines(content, fmt, lookup) ==
    SelectSeq(content, LAMBDA l : Retained(l, fmt, lookup))

RetainedHits(content, fmt, lookup) ==
    LET ls == RetainedLines(content, fmt, lookup)
    IN [i \in 1..Len(ls) |-> HitOf(ls[i], fmt)]

CatalogHits(content, fmt, lookup) ==
    LET ls == RetainedLines(content, fmt, lookup)
    IN [i \in 1..Len(ls) |->
           LET e == CatalogEntry(lookup, ls[i].ref)
               h == HitOf(ls[i], fmt)
           IN Row(SqlInt(e.mag_id), SqlInt(e.contig_id), h.identity, h.start,
                  h.stop)]

Positions(rows) ==
    [i \in 1..Len(rows) |->
        [identity |-> rows[i].identity, start |-> rows[i].start,
         stop |-> rows[i].stop]]

SampleRows(info, name) == SelectSeq(info, LAMBDA r : r.sample_name = name)

MagsOf(rows, name) == SelectSeq(rows, LAMBDA r : r.sample_name = name)

\* The file of cur has been ingested and the call is back in its loop.
FileDone == pc = "loop" /\ cur # NoCur

\* save_reads_mapped has written everything it writes to the hit table.
IngestDone == (pc \in {"index", "mags", "register"} \/ FileDone) /\ cur # NoCur

Rebuilt == FileDone /\ op = "add_sample" /\ cur.rebuild

\* C4: when a file has been ingested, by sqldb_creation or by add_sample, the
\* hit table of its sample holds, for every retained line, the mag_id and
\* contig_id the catalog gives the line's contig together with the line's
\* identity and positions, and nothing for the other lines.
C4_IdsFromCatalog ==
    (FileDone /\ Supported(map_format) /\ cur.sample \in DOMAIN db.tables) =>
        db.tables[cur.sample]
            = CatalogHits(files[cur.file], map_format, db.lookup_table)

\* C5: after add_sample has rebuilt a source name that sample_info already
\* held, the table of the sample id recorded for that name holds exactly the
\* hits of the file as it is now, and the sample_info rows of the name are
\* the ones from before the call.
C5_RebuildReplaces ==
    Rebuilt =>
        /\ SampleRows(db.sample_info, cur.file) = SampleRows(pre.sample_info, cur.file)
        /\ Len(SampleRows(db.sample_info, cur.file)) = 1
        /\ LET sid == SampleRows(db.sample_info, cur.file)[1].sample_id
           IN /\ sid \in DOMAIN db.tables
              /\ db.tables[sid]
                    = CatalogHits(files[cur.file], map_format, db.lookup_table)

\* C5 witness: a rebuild that replaced a non-empty table by the hits, at other
\* positions, of a changed file.
C5_Witness ==
    /\ Rebuilt
    /\ cur.sample \in DOMAIN pre.tables
    /\ cur.sample \in DOMAIN db.tables
    /\ pre.tables[cur.sample] # <<>>
    /\ db.tables[cur.sample] # <<>>
    /\ Positions(pre.tables[cur.sample]) # Positions(db.tables[cur.sample])

\* C6: a rebuild of a sample from the file its original ingestion read, with
\* the same format and catalog, leaves the hit table equal to the one the
\* original ingestion stored.
C6_RebuildIdempotent ==
    (Rebuilt /\ orig[cur.file].known /\ orig[cur.file].fmt = map_format
       /\ cur.sample \in DOMAIN db.tables) =>
        db.tables[cur.sample] = orig[cur.file].hits

\* C7: once the ingestion of a file is complete, whatever the batch size, the
\* hit table of the sample holds the hits of the retained lines of the file,
\* one row per line, in the order of the file.
C7_AllRetainedStored ==
    (IngestDone /\ Supported(map_format) /\ cur.sample \in DOMAIN db.tables) =>
        Positions(db.tables[cur.sample])
            = RetainedHits(files[cur.file], map_format, db.lookup_table)

\* C7 witness: an ingestion completed with twice the batch size of retained
\* lines: a write inside the loop and the final one.
C7_Witness ==
    /\ IngestDone
    /\ cur.sample \in DOMAIN db.tables
    /\ Len(db.tables[cur.sample]) = 2 * batch

\* C8: at every point of the ingestion of a file, and after it was stopped
\* or failed, the committed hit table of the sample is the first k whole
\* batches of the retained hits of the file, or all of them, and the open
\* transaction holds at most one batch.
C8_WholeBatches ==
    (cur # NoCur /\ Supported(map_format) /\ cur.sample \in DOMAIN db.tables) =>
        LET t   == Positions(db.tables[cur.sample])
            all == RetainedHits(files[cur.file], map_format, db.lookup_table)
        IN /\ \/ t = all
              \/ \E k \in 0..Len(all) :
                    /\ k * batch <= Len(all)
                    /\ t = SubSeq(all, 1, k * batch)
           /\ Len(txn.rows) <= batch

\* C8 witness: an ingestion stopped after a batch was committed and before
\* the rest of the file was.
C8_Witness ==
    /\ pc = "idle" /\ outcome = "interrupted"
    /\ cur # NoCur
    /\ cur.sample \in DOMAIN db.tables
    /\ Len(db.tables[cur.sample]) > 0
    /\ Len(db.tables[cur.sample])
          < Len(RetainedHits(files[cur.file], map_format, db.lookup_table))

\* C9: no call ends with a division error: a sam or bam record whose tag
\* gives a total mapped length of zero is passed over.
C9_ZeroLengthSkipped == outcome # "ZeroDivisionError"

\* C10: when add_sample on a source name that sample_info holds fails on the
\* format, the hit table of the sample and the mags_per_sample rows of the
\* name are what they were before the call.
C10_FailedFormatKeepsState ==
    (pc = "idle" /\ outcome = "AssertionError" /\ op = "add_sample"
       /\ cur.rebuild) =>
        /\ cur.sample \in DOMAIN db.tables
        /\ db.tables[cur.sample] = pre.tables[cur.sample]
        /\ MagsOf(db.mags_per_sample, cur.file) = MagsOf(pre.mags_per_sample, cur.file)

\* The MAGs that the retained lines of a file reach.
MagsReached(content, fmt, lookup) ==
    LET ls == RetainedLines(content, fmt, lookup)
    IN {CatalogEntry(lookup, ls[i].ref).mag_name : i \in 1..Len(ls)}

MagNames(rows) == {rows[i].mag_name : i \in 1..Len(rows)}

\* C11: when the ingestion of a file is complete, mags_per_sample holds for
\* its sample one row per MAG that the hits of the file reach, none twice and
\* none for another MAG; and no step changes the rows of a sample other than
\* the one being ingested.
C11_MagsPerSample ==
    /\ [](FileDone =>
            LET rows == MagsOf(db.mags_per_sample, cur.file)
                mags == MagsReached(files[cur.file], map_format, db.lookup_table)
            IN /\ MagNames(rows) = mags
               /\ Len(rows) = Cardinality(mags))
    /\ [][\A n \in FileNames :
             (n # cur.file /\ n # cur'.file) =>
                 MagsOf(db'.mags_per_sample, n) = MagsOf(db.mags_per_sample, n)]_vars

\* C11 witness: a rebuild after which the sample reaches other MAGs than
\* before, with another sample's rows in the table.
C11_Witness ==
    /\ Rebuilt
    /\ MagsOf(pre.mags_per_sample, cur.file) # <<>>
    /\ MagNames(MagsOf(pre.mags_per_sample, cur.file))
          # MagNames(MagsOf(db.mags_per_sample, cur.file))
    /\ \E n \in FileNames \ {cur.file} : MagsOf(db.mags_per_sample, n) # <<>>

\* C12: whenever add_sample starts to ingest a file whose name sample_info
\* holds, it rebuilds the table of the sample id recorded for that name; and
\* sample_info never holds a name or a sample id twice.
C12_OneSamplePerName ==
    /\ (op = "add_sample" /\ pc = "read") =>
          \A i \in 1..Len(db.sample_info) :
              db.sample_info[i].sample_name = cur.file =>
                  /\ cur.rebuild
                  /\ cur.sample = db.sample_info[i].sample_id
    /\ \A i, k \in 1..Len(db.sample_info) :
          i # k => /\ db.sample_info[i].sample_name # db.sample_info[k].sample_name
                   /\ db.sample_info[i].sample_id # db.sample_info[k].sample_id

\* C13: sqldb_creation gets past the join of the lengths only with a length
\* in mag_info for every contig of lookup_table: a contig of the MAG file
\* that the FASTA file lacks makes the call fail there.
C13_LengthlessRejected ==
    (op = "sqldb_creation" /\ pc = "loop") =>
        \A i \in 1..Len(db.lookup_table) :
            \E k \in 1..Len(db.mag_info) :
                db.mag_info[k].contig_id = db.lookup_table[i].contig_id

\* The row of the matrix that the cell updates cs went to.
RowCredited(cs, breaks) == PyIndex(cs[1].row, Len(breaks))

\* C14: of two rows read one after the other on contigs of the matrix, the
\* one with the higher identity is not credited to a lower row of the matrix
\* than the other.
C14_IdentityMonotonic ==
    [][(OnMatrix /\ OnMatrix' /\ nreads' = nreads + 1) =>
          /\ read_mapped.identity <= read_mapped'.identity =>
                RowCredited(credits, id_breaks) <= RowCredited(credits', id_breaks')
          /\ read_mapped.identity >= read_mapped'.identity =>
                RowCredited(credits, id_breaks) >= RowCredited(credits', id_breaks')]_vars

\* C15: at every point of a rebuild by add_sample the committed table of the
\* sample, which is what a reader running beside it selects from, is there
\* and holds either the hits it held when the call began or the hits of the
\* file as it is now.
C15_ReaderSeesWholeSet ==
    (op = "add_sample" /\ pc # "idle" /\ cur.rebuild) =>
        /\ cur.sample \in DOMAIN db.tables
        /\ \/ db.tables[cur.sample] = pre.tables[cur.sample]
           \/ db.tables[cur.sample]
                 = CatalogHits(files[cur.file], map_format, db.lookup_table)

Spanning(a, b) == OnMatrix /\ read_mapped.start = a /\ read_mapped.stop = b

Cols(cs) == [k \in 1..Len(cs) |-> [col |-> cs[k].col, bases |-> cs[k].bases]]

\* C16 as stated: the contig of 2350 bases in bins of width 1000 has 2 bins,
\* bin 0 ends at 999, and the row 990..1010 is credited 10 bases to bin 0 and
\* 11 bases to bin 1.
C16_SplitAt999 ==
    mpc = "fill" =>
        /\ Len(matrices[1].starts) = 2
        /\ At(matrices[1].ends, 0) = 999
        /\ Spanning(990, 1010) =>
              Cols(credits) = <<[col |-> 0, bases |-> 10], [col |-> 1, bases |-> 11]>>

\* C16 amended: the contig of 2350 bases in bins of width 1000 has 2 bins,
\* bin 0 ends at 1174, the row 990..1010 is credited all its 21 bases to
\* bin 0, and the row 1165..1185 is credited 10 bases to bin 0 and 11 bases
\* to bin 1.
C16_SplitAt1174 ==
    mpc = "fill" =>
        /\ Len(matrices[1].starts) = 2
        /\ matrices[1].ends = <<1174, 2350>>
        /\ Spanning(990, 1010) => Cols(credits) = <<[col |-> 0, bases |-> 21]>>
        /\ Spanning(1165, 1185) =>
              Cols(credits) = <<[col |-> 0, bases |-> 10], [col |-> 1, bases |-> 11]>>

\* C16 witness: the row 1165..1185 has been read from the cursor.
C16_Witness == mpc = "fill" /\ Spanning(1165, 1185)

\* C17: no ingestion of a sam file ends with the scan for the MD:Z: field
\* running off the fields of a line: on every line that holds MD:Z: and
\* maps to a contig of the catalog the scan stops at a field that begins
\* with MD:Z:, at or after the first field.
C17_ScanStopsAtTag == ~(map_format = "sam" /\ outcome = "IndexError")

====
